---- MODULE Spec2Model ----
(***************************************************************************)
(* Model of botcrafter.py: the task and log endpoints of the Flask         *)
(* application, the before_request token check in front of them, and the   *)
(* MySQL connection / cursor each handler opens and closes.                *)
(*                                                                         *)
(* A request is served by a worker in the steps of its handler:            *)
(*   before_request -> <handler entry: decode and validate> -> Connect ->  *)
(*   OpenCursor -> Execute -> Commit -> Finally                            *)
(* Every store call may raise mysql.connector.Error.                       *)
(***************************************************************************)
EXTENDS Integers, Sequences, FiniteSets, TLC

VARIABLES
    apiToken,   \* API_TOKEN, read from the environment at start-up
    tasks,      \* committed rows of table tasks: task_id -> row
    nextId,     \* AUTO_INCREMENT counter of tasks.task_id
    logs,       \* committed rows of table logs, in insertion order
    logsTable,  \* whether table logs exists
    pc,         \* per worker: position in the request it serves
    req,        \* per worker: the request (endpoint, header, decoded body)
    conn,       \* per worker: the handler's local conn is an open connection
    cur,        \* per worker: the handler's local cursor is an open cursor
    rowcount,   \* per worker: cursor.rowcount (-1 before any statement)
    txn,        \* per worker: the uncommitted write of its connection
    resp        \* per worker: the response the handler returns

vars == <<apiToken, tasks, nextId, logs, logsTable,
          pc, req, conn, cur, rowcount, txn, resp>>

store == <<tasks, nextId, logs, logsTable>>

-----------------------------------------------------------------------------
(* Bounds of the model *)

\* auto-increment values handed out for tasks when one worker serves requests
MaxId == 2
\* rows of table logs
MaxLogs == 1
\* auto-increment values handed out for tasks when two workers run concurrently
ConcMaxId == 1

\* LIMIT of the get_logs query
LogLimit == 100

\* Python's None: an absent header, an unset environment variable
Absent == "<None>"

\* More than one worker serves requests (the concurrent specification).  There,
\* only authorised, well-formed requests are enumerated: a rejected request is
\* one step that touches nothing shared.
Concurrent == Cardinality(DOMAIN pc) > 1

IdCap == IF Concurrent THEN ConcMaxId ELSE MaxId

-----------------------------------------------------------------------------
(* Requests *)

Endpoints == {"add_task", "update_task_status", "mark_task_intensive",
              "get_pending_tasks", "get_high_priority_tasks",
              "log_event", "get_logs"}

Headers == IF Concurrent THEN {apiToken} ELSE {Absent, "secret", "wrong"}

\* A JSON object is a record; a key the object lacks is outside its DOMAIN.
EmptyObj == <<>>

Has(data, k) == k \in DOMAIN data

\* Python's `not data.get(k)` for a string field and for an integer field
NotStr(data, k) == ~Has(data, k) \/ data[k] = ""
NotInt(data, k) == ~Has(data, k) \/ data[k] = 0

\* data.get(k, default)
GetOr(data, k, default) == IF Has(data, k) THEN data[k] ELSE default

AddTaskBodies ==
    IF Concurrent
    THEN {[task_type |-> "scan", assigned_to |-> "bot1"]}
    ELSE {[task_type |-> "scan", assigned_to |-> "bot1"],
          [task_type |-> "scan", assigned_to |-> "bot1", priority |-> 5],
          EmptyObj,
          [task_type |-> "scan"],
          [assigned_to |-> "bot1"],
          [task_type |-> "", assigned_to |-> "bot1"],
          [task_type |-> "scan", assigned_to |-> ""]}

UpdateBodies ==
    IF Concurrent
    THEN {[task_id |-> i, status |-> "done"] : i \in 1..IdCap}
    ELSE {[task_id |-> i, status |-> s] : i \in 1..IdCap, s \in {"pending", "done"}}
         \cup {EmptyObj,
               [task_id |-> 1],
               [status |-> "done"],
               [task_id |-> 0, status |-> "done"],
               [task_id |-> 1, status |-> ""]}

MarkBodies ==
    {[task_id |-> i] : i \in 1..IdCap}
    \cup (IF Concurrent THEN {} ELSE {EmptyObj, [task_id |-> 0]})

LogEventBodies ==
    IF Concurrent
    THEN {[event_type |-> "evt", details |-> "x"]}
    ELSE {[event_type |-> "evt", details |-> "x"],
          EmptyObj,
          [event_type |-> "evt"],
          [details |-> "x"],
          [event_type |-> "", details |-> "x"],
          [event_type |-> "evt", details |-> ""]}

\* What request.get_json() returns: a dict (isdict), or null / a list / a
\* scalar, which has no .get
JsonBodies(objs) ==
    {[isdict |-> TRUE, data |-> d] : d \in objs}
    \cup (IF Concurrent THEN {} ELSE {[isdict |-> FALSE, data |-> EmptyObj]})

NoReq == [op |-> "", hdr |-> Absent, isdict |-> FALSE, data |-> EmptyObj]

-----------------------------------------------------------------------------
(* Responses *)

Response(code, status, message, rows) ==
    [code |-> code, status |-> status, message |-> message, rows |-> rows]

NoResp == Response(0, "", "", <<>>)

Unauthorized == Response(401, "error", "Unauthorized", <<>>)

ValidationError(message) == Response(400, "error", message, <<>>)

\* data.get on a body that is no dict raises AttributeError before the try
\* block: Flask answers 500
UnhandledError == Response(500, "error", "Internal Server Error", <<>>)

\* the except branch: 500 with the backend's message, here the failed call
StoreError(phase) == Response(500, "error", phase, <<>>)

Success(message) == Response(200, "success", message, <<>>)

SuccessRows(rows) == Response(200, "success", "", rows)

-----------------------------------------------------------------------------
(* The store *)

\* CURRENT_TIMESTAMP of the n-th INSERT into tasks: later inserts, later stamps
Timestamp(n) == n

\* the INSERT written with another status literal
InsertedStatusDone == "done"

\* The row INSERT INTO tasks (task_type, status, assigned_to, priority, details)
\* VALUES (%s, 'pending', %s, %s, %s) creates
InsertedStatus == "pending"

\* column default of tasks.fast_interval
DefaultFastInterval == FALSE

NewTask(id, data) ==
    [task_id       |-> id,
     task_type     |-> data.task_type,
     status        |-> InsertedStatus,
     assigned_to   |-> data.assigned_to,
     priority      |-> GetOr(data, "priority", 1),
     details       |-> GetOr(data, "details", ""),
     fast_interval |-> DefaultFastInterval,
     created_at    |-> Timestamp(id)]

\* the WHERE clause left out
PendingWhereAll(row) == TRUE

\* WHERE status = 'pending'
PendingWhere(row) == row.status = "pending"

\* the status condition left out
HighPriorityWhereFlagOnly(row) == row.fast_interval = TRUE

\* WHERE fast_interval = TRUE AND status = 'pending'
HighPriorityWhere(row) == row.fast_interval = TRUE /\ row.status = "pending"

SelectPending(t) == {t[i] : i \in {j \in DOMAIN t : PendingWhere(t[j])}}

SelectHighPriority(t) == {t[i] : i \in {j \in DOMAIN t : HighPriorityWhere(t[j])}}

\* A SELECT without ORDER BY returns the matching rows in an order the
\* server chooses: every enumeration of the set is a possible result.
Orderings(S) ==
    {s \in [1..Cardinality(S) -> S] :
        \A i, j \in 1..Cardinality(S) : i # j => s[i] # s[j]}

\* SELECT * FROM logs ORDER BY logged_at DESC LIMIT 100
Reverse(s) == [i \in 1..Len(s) |-> s[Len(s) + 1 - i]]

SelectLogs(l) ==
    LET r == Reverse(l)
    IN  IF Len(r) <= LogLimit THEN r ELSE SubSeq(r, 1, LogLimit)

NoTxn == [kind |-> "none"]

\* mark written as SET fast_interval = NOT fast_interval
ApplyTasksToggle(t, x) ==
    IF x.kind = "insert" THEN
        [i \in DOMAIN t \cup {x.row.task_id} |->
            IF i = x.row.task_id THEN x.row ELSE t[i]]
    ELSE IF x.kind = "status" /\ x.id \in DOMAIN t THEN
        [t EXCEPT ![x.id].status = x.status]
    ELSE IF x.kind = "fast" /\ x.id \in DOMAIN t THEN
        [t EXCEPT ![x.id].fast_interval = ~@]
    ELSE t

\* the status update written as SET status = %s, fast_interval = DEFAULT
ApplyTasksReset(t, x) ==
    IF x.kind = "insert" THEN
        [i \in DOMAIN t \cup {x.row.task_id} |->
            IF i = x.row.task_id THEN x.row ELSE t[i]]
    ELSE IF x.kind = "status" /\ x.id \in DOMAIN t THEN
        [t EXCEPT ![x.id].status = x.status, ![x.id].fast_interval = FALSE]
    ELSE IF x.kind = "fast" /\ x.id \in DOMAIN t THEN
        [t EXCEPT ![x.id].fast_interval = TRUE]
    ELSE t

\* The effect of a committed statement on table tasks
ApplyTasks(t, x) ==
    IF x.kind = "insert" THEN
        [i \in DOMAIN t \cup {x.row.task_id} |->
            IF i = x.row.task_id THEN x.row ELSE t[i]]
    ELSE IF x.kind = "status" /\ x.id \in DOMAIN t THEN
        [t EXCEPT ![x.id].status = x.status]
    ELSE IF x.kind = "fast" /\ x.id \in DOMAIN t THEN
        [t EXCEPT ![x.id].fast_interval = TRUE]
    ELSE t

\* The effect of a committed statement on table logs
ApplyLogs(l, x) ==
    IF x.kind = "log" THEN Append(l, x.row) ELSE l

-----------------------------------------------------------------------------
(* Initial states *)

InitFor(workers, tokens) ==
    /\ apiToken \in tokens
    /\ tasks = <<>>
    /\ nextId = 1
    /\ logs = <<>>
    /\ logsTable = FALSE
    /\ pc = [w \in workers |-> "idle"]
    /\ req = [w \in workers |-> NoReq]
    /\ conn = [w \in workers |-> FALSE]
    /\ cur = [w \in workers |-> FALSE]
    /\ rowcount = [w \in workers |-> -1]
    /\ txn = [w \in workers |-> NoTxn]
    /\ resp = [w \in workers |-> NoResp]

\* one worker; API_TOKEN set or unset
Init == InitFor({"w1"}, {"secret", Absent})

\* two workers serving requests concurrently
InitConc == InitFor({"w1", "w2"}, {"secret"})

-----------------------------------------------------------------------------
(* Steps of a request *)

\* the check written so that a request without the header passes
AuthorizedIfAbsent(hdr) == hdr = apiToken \/ hdr = Absent

\* token != API_TOKEN is False
Authorized(hdr) == hdr = apiToken

\* The handler returns (or raises) before its try block
Reject(w, r) ==
    /\ pc' = [pc EXCEPT ![w] = "done"]
    /\ resp' = [resp EXCEPT ![w] = r]

Enter(w) ==
    /\ pc' = [pc EXCEPT ![w] = "connect"]
    /\ resp' = resp

\* Requests of the other workers that will still take a task_id / add a log row
AddsWaiting(w) ==
    Cardinality({v \in DOMAIN pc \ {w} :
        /\ req[v].op = "add_task"
        /\ pc[v] \in {"route", "connect", "cursor", "execute"}})

LogsWaiting(w) ==
    Cardinality({v \in DOMAIN pc \ {w} :
        /\ req[v].op = "log_event"
        /\ pc[v] \in {"route", "connect", "cursor", "execute", "commit"}})

\* The bounds leave room for one more well-formed request to endpoint op
Room(w, op) ==
    IF op = "add_task" THEN nextId + AddsWaiting(w) <= IdCap
    ELSE IF op = "log_event" THEN Len(logs) + LogsWaiting(w) < MaxLogs
    ELSE TRUE

before_request(w) ==
    /\ pc[w] \in {"idle", "done"}
    /\ \E op \in Endpoints, hdr \in Headers :
         /\ Concurrent => Room(w, op)
         /\ req' = [req EXCEPT ![w] = [NoReq EXCEPT !.op = op, !.hdr = hdr]]
         /\ rowcount' = [rowcount EXCEPT ![w] = -1]
         /\ IF Authorized(hdr)
            THEN /\ pc' = [pc EXCEPT ![w] = "route"]
                 /\ resp' = [resp EXCEPT ![w] = NoResp]
            ELSE Reject(w, Unauthorized)
    /\ UNCHANGED <<apiToken, store, conn, cur, txn>>

\* The part of a POST handler before its try block: decode the body, read the
\* fields, return 400 for the bodies in `invalid`
Decode(w, op, bodies, invalid, message) ==
    /\ pc[w] = "route"
    /\ req[w].op = op
    /\ \E b \in JsonBodies(bodies) :
         /\ (b.isdict /\ b.data \notin invalid) => Room(w, op)
         /\ req' = [req EXCEPT ![w].isdict = b.isdict, ![w].data = b.data]
         /\ IF ~b.isdict THEN Reject(w, UnhandledError)
            ELSE IF b.data \in invalid THEN Reject(w, ValidationError(message))
            ELSE Enter(w)
    /\ UNCHANGED <<apiToken, store, conn, cur, rowcount, txn>>

AddTaskInvalid(data) == NotStr(data, "task_type") \/ NotStr(data, "assigned_to")

add_task(w) ==
    Decode(w, "add_task", AddTaskBodies,
           {d \in AddTaskBodies : AddTaskInvalid(d)},
           "Task-Typ oder zugewiesener GPT fehlt")

UpdateInvalid(data) == NotInt(data, "task_id") \/ NotStr(data, "status")

update_task_status(w) ==
    Decode(w, "update_task_status", UpdateBodies,
           {d \in UpdateBodies : UpdateInvalid(d)},
           "Task-ID oder Status fehlt")

MarkInvalid(data) == NotInt(data, "task_id")

mark_task_intensive(w) ==
    Decode(w, "mark_task_intensive", MarkBodies,
           {d \in MarkBodies : MarkInvalid(d)}, "Task-ID fehlt")

LogEventInvalid(data) == NotStr(data, "event_type") \/ NotStr(data, "details")

log_event(w) ==
    Decode(w, "log_event", LogEventBodies,
           {d \in LogEventBodies : LogEventInvalid(d)},
           "Event-Typ oder Details fehlen")

\* A GET handler has nothing before its try block
EnterGet(w, op) ==
    /\ pc[w] = "route"
    /\ req[w].op = op
    /\ Enter(w)
    /\ UNCHANGED <<apiToken, store, req, conn, cur, rowcount, txn>>

get_pending_tasks(w) == EnterGet(w, "get_pending_tasks")

get_high_priority_tasks(w) == EnterGet(w, "get_high_priority_tasks")

get_logs(w) == EnterGet(w, "get_logs")

\* except mysql.connector.Error: the 500 response is built, then the finally
\* block runs
Raise(w, phase) ==
    /\ pc' = [pc EXCEPT ![w] = "finally"]
    /\ resp' = [resp EXCEPT ![w] = StoreError(phase)]

\* conn = mysql.connector.connect(**db_config)
Connect(w) ==
    /\ pc[w] = "connect"
    /\ \E ok \in BOOLEAN :
         IF ok
         THEN /\ conn' = [conn EXCEPT ![w] = TRUE]
              /\ pc' = [pc EXCEPT ![w] = "cursor"]
              /\ resp' = resp
         ELSE /\ conn' = conn
              /\ Raise(w, "connect")
    /\ UNCHANGED <<apiToken, store, req, cur, rowcount, txn>>

\* cursor = conn.cursor()
OpenCursor(w) ==
    /\ pc[w] = "cursor"
    /\ \E ok \in BOOLEAN :
         IF ok
         THEN /\ cur' = [cur EXCEPT ![w] = TRUE]
              /\ pc' = [pc EXCEPT ![w] = "execute"]
              /\ resp' = resp
         ELSE /\ cur' = cur
              /\ Raise(w, "cursor")
    /\ UNCHANGED <<apiToken, store, req, conn, rowcount, txn>>

\* A write statement ran: its effect waits for the commit
Staged(w, x, n) ==
    /\ txn' = [txn EXCEPT ![w] = x]
    /\ rowcount' = [rowcount EXCEPT ![w] = n]
    /\ pc' = [pc EXCEPT ![w] = "commit"]
    /\ resp' = resp

\* A SELECT ran and fetchall() read its rows: the handler returns them from
\* inside the try block
Fetched(w, rows) ==
    /\ txn' = txn
    /\ rowcount' = [rowcount EXCEPT ![w] = Len(rows)]
    /\ pc' = [pc EXCEPT ![w] = "finally"]
    /\ resp' = [resp EXCEPT ![w] = SuccessRows(rows)]

Failed(w) ==
    /\ UNCHANGED <<txn, rowcount>>
    /\ Raise(w, "execute")

\* cursor.execute(sql, params) of each handler (and fetchall() of a SELECT)
Execute(w) ==
    /\ pc[w] = "execute"
    /\ LET op == req[w].op
           data == req[w].data
       IN  \E ok \in BOOLEAN :
           IF op = "add_task" THEN
               /\ UNCHANGED <<tasks, logs, logsTable>>
               /\ IF ok
                  THEN /\ nextId' = nextId + 1
                       /\ Staged(w, [kind |-> "insert", row |-> NewTask(nextId, data)], 1)
                  ELSE /\ nextId' = nextId
                       /\ Failed(w)
           ELSE IF op = "update_task_status" THEN
               /\ UNCHANGED store
               /\ IF ~ok THEN Failed(w)
                  ELSE IF data.task_id \in DOMAIN tasks
                  THEN Staged(w, [kind |-> "status", id |-> data.task_id,
                                  status |-> data.status], 1)
                  ELSE Staged(w, NoTxn, 0)
           ELSE IF op = "mark_task_intensive" THEN
               /\ UNCHANGED store
               /\ IF ~ok THEN Failed(w)
                  ELSE IF data.task_id \in DOMAIN tasks
                  THEN Staged(w, [kind |-> "fast", id |-> data.task_id], 1)
                  ELSE Staged(w, NoTxn, 0)
           ELSE IF op = "get_pending_tasks" THEN
               /\ UNCHANGED store
               /\ IF ~ok THEN Failed(w)
                  ELSE \E rows \in Orderings(SelectPending(tasks)) : Fetched(w, rows)
           ELSE IF op = "get_high_priority_tasks" THEN
               /\ UNCHANGED store
               /\ IF ~ok THEN Failed(w)
                  ELSE \E rows \in Orderings(SelectHighPriority(tasks)) : Fetched(w, rows)
           ELSE IF op = "get_logs" THEN
               /\ UNCHANGED store
               \* without table logs the SELECT fails (error 1146)
               /\ IF ~ok \/ ~logsTable THEN Failed(w)
                  ELSE Fetched(w, SelectLogs(logs))
           ELSE
               \* log_event: CREATE TABLE IF NOT EXISTS logs, then the INSERT;
               \* the second statement may fail after the first took effect
               /\ UNCHANGED <<tasks, nextId, logs>>
               /\ \E created \in BOOLEAN :
                    IF ok
                    THEN /\ logsTable' = TRUE
                         /\ Staged(w, [kind |-> "log",
                                       row |-> [event_type |-> data.event_type,
                                                details |-> data.details]], 1)
                    ELSE /\ logsTable' = (logsTable \/ created)
                         /\ Failed(w)
    /\ UNCHANGED <<apiToken, req, conn, cur>>

\* the message of each write handler's success response
SuccessMessage(op) ==
    IF op = "add_task" THEN "Task erfolgreich hinzugefügt"
    ELSE IF op = "update_task_status" THEN "Task-Status aktualisiert"
    ELSE IF op = "mark_task_intensive" THEN "Task als intensiv markiert"
    ELSE "Event erfolgreich protokolliert"

\* What the handler answers after a commit that raised nothing
CommitReply(w) == Success(SuccessMessage(req[w].op))

\* conn.commit(), then the success response
Commit(w) ==
    /\ pc[w] = "commit"
    /\ \E ok \in BOOLEAN :
         IF ok
         THEN /\ tasks' = ApplyTasks(tasks, txn[w])
              /\ logs' = ApplyLogs(logs, txn[w])
              /\ pc' = [pc EXCEPT ![w] = "finally"]
              /\ resp' = [resp EXCEPT ![w] = CommitReply(w)]
         ELSE /\ UNCHANGED <<tasks, logs>>
              /\ Raise(w, "commit")
    /\ txn' = [txn EXCEPT ![w] = NoTxn]
    /\ UNCHANGED <<apiToken, nextId, logsTable, req, conn, cur, rowcount>>

\* finally: if 'cursor' in locals() and cursor: cursor.close()
CursorAfterFinally(w) == FALSE

\* conn.close() nested under the cursor test: skipped when no cursor was made
ConnAfterFinallyNested(w) == conn[w] /\ ~cur[w]

\* finally: if 'conn' in locals() and conn: conn.close()
ConnAfterFinally(w) == FALSE

Finally(w) ==
    /\ pc[w] = "finally"
    /\ cur' = [cur EXCEPT ![w] = CursorAfterFinally(w)]
    /\ conn' = [conn EXCEPT ![w] = ConnAfterFinally(w)]
    \* closing the connection rolls back what it had not committed
    /\ txn' = [txn EXCEPT ![w] = NoTxn]
    /\ pc' = [pc EXCEPT ![w] = "done"]
    /\ UNCHANGED <<apiToken, store, req, rowcount, resp>>

Next ==
    \/ \E w \in DOMAIN pc : before_request(w)
    \/ \E w \in DOMAIN pc : add_task(w)
    \/ \E w \in DOMAIN pc : update_task_status(w)
    \/ \E w \in DOMAIN pc : mark_task_intensive(w)
    \/ \E w \in DOMAIN pc : log_event(w)
    \/ \E w \in DOMAIN pc : get_pending_tasks(w)
    \/ \E w \in DOMAIN pc : get_high_priority_tasks(w)
    \/ \E w \in DOMAIN pc : get_logs(w)
    \/ \E w \in DOMAIN pc : Connect(w)
    \/ \E w \in DOMAIN pc : OpenCursor(w)
    \/ \E w \in DOMAIN pc : Execute(w)
    \/ \E w \in DOMAIN pc : Commit(w)
    \/ \E w \in DOMAIN pc : Finally(w)

Spec == Init /\ [][Next]_vars

SpecConc == InitConc /\ [][Next]_vars

-----------------------------------------------------------------------------
(* Properties *)

Workers == DOMAIN pc

\* worker w has finished a request to endpoint op
Done(w, op) == pc[w] = "done" /\ req[w].op = op

\* the rows of a response, as a set
RowSet(r) == {r.rows[k] : k \in 1..Len(r.rows)}

\* C1: a get_pending_tasks that succeeds returns exactly the tasks whose
\* status is "pending", each once: no task with another status is listed,
\* whatever add_task, update_task_status and mark_task_intensive did before.
C1_PendingExact ==
    \A w \in Workers :
        (Done(w, "get_pending_tasks") /\ resp[w].code = 200) =>
            /\ \A k \in 1..Len(resp[w].rows) : resp[w].rows[k].status = "pending"
            /\ RowSet(resp[w]) =
                 {tasks[i] : i \in {j \in DOMAIN tasks : tasks[j].status = "pending"}}
            /\ Len(resp[w].rows) = Cardinality(RowSet(resp[w]))

\* a listing was returned while a task updated to "done" exists beside a
\* pending one
C1_Witness ==
    \E w \in Workers :
        /\ Done(w, "get_pending_tasks")
        /\ resp[w].code = 200
        /\ Len(resp[w].rows) = 1
        /\ \E i \in DOMAIN tasks : tasks[i].status = "done"

\* A before B in a listing: priority descending, then created_at ascending
InOrder(a, b) ==
    \/ a.priority > b.priority
    \/ a.priority = b.priority /\ a.created_at <= b.created_at

\* C2: every listing of get_pending_tasks and get_high_priority_tasks is
\* ordered by priority descending, then creation time ascending.
C2_ListingOrdered ==
    \A w \in Workers :
        (/\ pc[w] = "done"
         /\ req[w].op \in {"get_pending_tasks", "get_high_priority_tasks"}
         /\ resp[w].code = 200) =>
            \A i, j \in 1..Len(resp[w].rows) :
                i < j => InOrder(resp[w].rows[i], resp[w].rows[j])

\* C6: in every store state the high-priority selection is a subset of the
\* pending selection, namely the pending tasks whose fast_interval is true.
C6_HighPrioritySubset ==
    /\ SelectHighPriority(tasks) \subseteq SelectPending(tasks)
    /\ SelectHighPriority(tasks) =
         {r \in SelectPending(tasks) : r.fast_interval = TRUE}

\* a flagged pending task beside a flagged task that is no longer pending
C6_Witness ==
    \E i, j \in DOMAIN tasks :
        /\ tasks[i].fast_interval /\ tasks[i].status = "pending"
        /\ tasks[j].fast_interval /\ tasks[j].status = "done"

\* worker w's step is the statement `op` committing with success
Committed(w, op) ==
    /\ pc[w] = "commit"
    /\ pc'[w] = "finally"
    /\ req[w].op = op
    /\ resp'[w].code = 200

\* C3: an add_task that succeeds creates exactly one new task; its status is
\* "pending", its fast_interval false, its id greater than the id of every
\* task created before it, and no other task changes.
C3_AddTaskCreatesOne ==
    [][\A w \in Workers :
         Committed(w, "add_task") =>
            \E id \in DOMAIN tasks' :
                /\ id \notin DOMAIN tasks
                /\ DOMAIN tasks' = DOMAIN tasks \cup {id}
                /\ tasks'[id].task_id = id
                /\ tasks'[id].status = "pending"
                /\ tasks'[id].fast_interval = FALSE
                /\ \A j \in DOMAIN tasks : id > j /\ tasks'[j] = tasks[j]
                /\ id < nextId]_vars

\* an add_task has succeeded after an earlier task was created and changed
C3_Witness ==
    \E w \in Workers :
        /\ Done(w, "add_task")
        /\ resp[w].code = 200
        /\ Cardinality(DOMAIN tasks) = 2
        /\ \E j \in DOMAIN tasks : tasks[j].status = "done" /\ tasks[j].fast_interval

\* C5: when mark_task_intensive(id) succeeds on an existing task, the
\* high-priority selection taken next holds that task if and only if its
\* status is "pending"; and marking is idempotent: on a task already marked
\* it changes nothing, and applying the same mark again changes nothing.
C5_MarkThenListed ==
    [][\A w \in Workers :
         (Committed(w, "mark_task_intensive") /\ req[w].data.task_id \in DOMAIN tasks) =>
            LET id == req[w].data.task_id
            IN  /\ (tasks'[id] \in SelectHighPriority(tasks'))
                      <=> (tasks'[id].status = "pending")
                /\ tasks[id].fast_interval => tasks' = tasks
                /\ ApplyTasks(tasks', [kind |-> "fast", id |-> id]) = tasks']_vars

\* a second mark of a task that is already marked is about to commit
C5_Witness ==
    \E w \in Workers :
        /\ pc[w] = "commit"
        /\ req[w].op = "mark_task_intensive"
        /\ txn[w].kind = "fast"
        /\ txn[w].id \in DOMAIN tasks
        /\ tasks[txn[w].id].fast_interval

C9_TasksPreserved ==
    [][/\ \A i \in DOMAIN tasks :
            /\ i \in DOMAIN tasks'
            /\ tasks'[i].task_id = tasks[i].task_id
            /\ tasks'[i].created_at = tasks[i].created_at
            /\ tasks[i].fast_interval => tasks'[i].fast_interval
       /\ \A w \in Workers :
            /\ Committed(w, "update_task_status") =>
                 /\ DOMAIN tasks' = DOMAIN tasks
                 /\ \A i \in DOMAIN tasks :
                      tasks'[i] = IF i = req[w].data.task_id
                                  THEN [tasks[i] EXCEPT !.status = tasks'[i].status]
                                  ELSE tasks[i]
            /\ Committed(w, "mark_task_intensive") =>
                 /\ DOMAIN tasks' = DOMAIN tasks
                 /\ \A i \in DOMAIN tasks :
                      tasks'[i] = IF i = req[w].data.task_id
                                  THEN [tasks[i] EXCEPT !.fast_interval = tasks'[i].fast_interval]
                                  ELSE tasks[i]]_vars

\* the status of a marked task was updated while another task exists
C9_Witness ==
    \E w \in Workers :
        /\ Done(w, "update_task_status")
        /\ resp[w].code = 200
        /\ rowcount[w] = 1
        /\ Cardinality(DOMAIN tasks) = 2
        /\ tasks[req[w].data.task_id].fast_interval
        /\ tasks[req[w].data.task_id].status = "done"

\* the request of worker w lacks a field its endpoint requires (a body that
\* is no JSON object lacks them all)
RequiredMissing(w) ==
    LET d == req[w].data
    IN  \/ req[w].op = "add_task"
           /\ (~Has(d, "task_type") \/ ~Has(d, "assigned_to")
               \/ d.task_type = "" \/ d.assigned_to = "")
        \/ req[w].op = "update_task_status"
           /\ (~Has(d, "task_id") \/ ~Has(d, "status"))
        \/ req[w].op = "mark_task_intensive" /\ ~Has(d, "task_id")
        \/ req[w].op = "log_event"
           /\ (~Has(d, "event_type") \/ ~Has(d, "details"))

\* C4: an authorised add_task, update_task_status, mark_task_intensive or
\* log_event request that lacks a required field is answered 400 before any
\* store call: no connection, no statement.
C4_MissingFieldIs400 ==
    \A w \in Workers :
        (pc[w] = "done" /\ Authorized(req[w].hdr) /\ RequiredMissing(w)) =>
            /\ resp[w].code = 400
            /\ ~conn[w]
            /\ rowcount[w] = -1

\* C8: an update_task_status or mark_task_intensive whose statement matched
\* no row (affected-row count zero) does not report success.
C8_ZeroRowsNotSuccess ==
    \A w \in Workers :
        (/\ pc[w] = "done"
         /\ req[w].op \in {"update_task_status", "mark_task_intensive"}
         /\ rowcount[w] = 0) =>
            resp[w].code # 200

\* C10: a worker that is not serving a request holds no open connection and
\* no open cursor, whichever store call failed; so with every request
\* completed, under any interleaving, no connection is open.
C10_AllClosed ==
    /\ \A w \in Workers :
          pc[w] \in {"idle", "done"} => ~conn[w] /\ ~cur[w]
    /\ (\A w \in Workers : pc[w] \in {"idle", "done"}) =>
          Cardinality({w \in Workers : conn[w]}) = 0

\* two requests have completed, one after its cursor could not be created,
\* the other with success
C10_Witness ==
    \E v, w \in Workers :
        /\ v # w
        /\ pc[v] = "done" /\ resp[v] = StoreError("cursor")
        /\ pc[w] = "done" /\ resp[w].code = 200

====
